---- MODULE Spec2Model ----
(***************************************************************************)
(* NonAutoregressiveWrapper (x_transformers/nonautoregressive_wrapper.py): *)
(* the iterative unmasking loop of generate and the masked training loss   *)
(* of forward, over an opaque network.                                     *)
(*                                                                         *)
(* Numbers.  A schedule value is the fraction c / SchedDen, a filter       *)
(* threshold the fraction c / ThresDen.  A logit is an integer level; the  *)
(* softmax weight of level l is 2^l and of -inf is 0, so a probability is  *)
(* weight / (sum of the weights of the position).  Scores (1 - p) are kept *)
(* as fractions [num, den] and compared by cross-multiplication.           *)
(***************************************************************************)
EXTENDS Integers, FiniteSets, Sequences

\* ---- sizes of the model ------------------------------------------------
max_seq_len == 2          \* net.max_seq_len, the fixed sequence length L
num_tokens  == 2          \* vocabulary size V = logits.shape[-1]
MaxBatch    == 1          \* largest batch_size passed to generate / forward
MaxSteps    == 2          \* largest configured number of rounds (steps)
MaxLogit    == 1          \* logit levels are 0..MaxLogit
SchedDen    == 3          \* schedule values are 0/SchedDen .. SchedDen/SchedDen
ThresDen    == 2          \* filter thresholds are 0/ThresDen .. ThresDen/ThresDen
MaxStartTemp == 1         \* start_temperature is one of 0 .. MaxStartTemp

\* ---- representation of special values ----------------------------------
\* an optional value is << >> (None) or << v >>
None    == << >>
Some(v) == << v >>
NegInf  == -1             \* float('-inf') written by top_k: softmax weight 0
NegMax  == -1             \* numerator of -torch.finfo(dtype).max: below every 1 - p
TempFloorDen == 1000      \* the temperature floor 1e-3 is 1 / TempFloorDen

Vocab   == 0 .. (num_tokens - 1)
mask_id == num_tokens     \* the sentinel, outside the vocabulary
Pos     == 1 .. max_seq_len
Logit   == 0 .. MaxLogit

VARIABLES
    pc,                   \* where the current call stands
    training,             \* net.training
    steps,                \* self.steps
    schedule_fn,          \* self.schedule_fn at times[1:], numerators over SchedDen
    was_training,         \* generate: saved mode flag
    batch_size,           \* generate: the argument (None or a size)
    filter_thres,         \* generate: the argument (None or a numerator over ThresDen)
    start_temperature,    \* generate: the argument
    all_mask_num_tokens,  \* generate: target masked counts, one per round
    round,                \* generate: number of loop iterations completed
    temperature,          \* generate: max(temperature, 1e-3) of the last round, a fraction
    net_input,            \* generate: the buffer given to the net in the last query
    seq,                  \* generate: the sequence buffer [batch][pos]
    mask,                 \* generate and forward: the mask buffer [batch][pos]
    net_logits,           \* generate: logits the net returned in the last round
    logits,               \* generate: logits of the last round, after top_k
    sampled_ids,          \* generate: ids sampled in the last round
    net_calls,            \* number of calls of self.net so far
    ret,                  \* generate: the returned value
    x,                    \* forward: the input batch
    rand_probs,           \* forward: schedule value per example
    masked,               \* forward: the masked input given to the net
    loss_terms            \* forward: positions whose (logit, target) enter the loss

vars == << pc, training, steps, schedule_fn, was_training, batch_size,
           filter_thres, start_temperature, all_mask_num_tokens, round,
           temperature, net_input, seq, mask, net_logits, logits, sampled_ids,
           net_calls, ret, x, rand_probs, masked, loss_terms >>

genVars == << was_training, batch_size, filter_thres, start_temperature,
              all_mask_num_tokens, round, temperature, seq, net_logits, logits,
              sampled_ids, ret >>
fwdVars == << x, rand_probs, masked, loss_terms >>
cfgVars == << steps, schedule_fn >>

\* ---- arithmetic helpers -------------------------------------------------
\* math.ceil of the non-negative fraction a / d
Ceil(a, d) == (a + d - 1) \div d

\* Tensor.long() of the non-negative fraction a / d: truncation
Long(a, d) == a \div d

\* round() of the non-negative fraction a / d, halves to the even neighbour
Round(a, d) ==
    LET q == a \div d
        r == a % d
    IN  IF 2 * r < d THEN q
        ELSE IF 2 * r > d THEN q + 1
        ELSE IF q % 2 = 0 THEN q ELSE q + 1

Max(a, b) == IF a >= b THEN a ELSE b

RECURSIVE SumOver(_, _)
SumOver(f, S) ==
    IF S = {} THEN 0
    ELSE LET e == CHOOSE e \in S : TRUE IN f[e] + SumOver(f, S \ {e})

\* ---- schedules -----------------------------------------------------------
\* the contract of spec section 4.1 on the grid times[1:], with f(0) = 1:
\* non-increasing and f(1) = 0
ScheduleContract ==
    /\ schedule_fn[steps] = 0
    /\ \A j \in 1 .. (steps - 1) : schedule_fn[j] >= schedule_fn[j + 1]

\* ---- sampling helpers ----------------------------------------------------
\* variant: topk called with largest = False
TopKSetsSmallest(keys, k) ==
    { S \in SUBSET (DOMAIN keys) :
        /\ Cardinality(S) = k
        /\ \A a \in S : \A b \in (DOMAIN keys) \ S : keys[a] <= keys[b] }

\* Tensor.topk(k) over integer keys: any k indices none of which is smaller
\* than an index left out (the order among equal keys is not specified)
TopKSets(keys, k) ==
    { S \in SUBSET (DOMAIN keys) :
        /\ Cardinality(S) = k
        /\ \A a \in S : \A b \in (DOMAIN keys) \ S : keys[a] >= keys[b] }

\* k of top_k for the threshold thres / ThresDen
TopKCount(thres) == Ceil((ThresDen - thres) * num_tokens, ThresDen)

\* top_k of one position: -inf everywhere but at the indices topk returned
top_k(row, ind) == [t \in Vocab |-> IF t \in ind THEN row[t] ELSE NegInf]

\* softmax of one position: weight of a token, and the sum of the weights.
\* The division by max(temperature, 1e-3) > 0 keeps the order of the logits
\* and the -inf entries; the levels stand for the logits so divided.
Weight(l) == IF l = NegInf THEN 0 ELSE 2 ^ l
WeightSum(row) == SumOver([t \in Vocab |-> Weight(row[t])], Vocab)

\* torch.multinomial of one position: a token of non-zero probability
Multinomial(row) == { t \in Vocab : Weight(row[t]) > 0 }

\* 1 - probs gathered at the sampled token, -finfo.max where ~mask
Score(row, t, m) ==
    IF m THEN [num |-> WeightSum(row) - Weight(row[t]), den |-> WeightSum(row)]
    ELSE [num |-> NegMax, den |-> 1]

ScoreGE(a, b) == a.num * b.den >= b.num * a.den

\* variant: only positions that are masked now can be selected
ScoreTopKSetsMaskedOnly(scores, k) ==
    LET live == { n \in Pos : scores[n].num >= 0 }
        kk   == IF k <= Cardinality(live) THEN k ELSE Cardinality(live)
    IN  { S \in SUBSET live :
            /\ Cardinality(S) = kk
            /\ \A a \in S : \A b \in live \ S : ScoreGE(scores[a], scores[b]) }

\* variant: topk of the scores called with largest = False
ScoreTopKSetsSmallest(scores, k) ==
    { S \in SUBSET Pos :
        /\ Cardinality(S) = k
        /\ \A a \in S : \A b \in Pos \ S : ScoreGE(scores[b], scores[a]) }

\* scores.topk(k).indices of one example
ScoreTopKSets(scores, k) ==
    { S \in SUBSET Pos :
        /\ Cardinality(S) = k
        /\ \A a \in S : \A b \in Pos \ S : ScoreGE(scores[a], scores[b]) }

\* ---- construction --------------------------------------------------------
\* NonAutoregressiveWrapper.__init__: any step count and any schedule callable
\* with values in [0, 1]; the net is in either mode; no call is in progress
Init ==
    /\ pc = "idle"
    /\ training \in BOOLEAN
    /\ steps \in 1 .. MaxSteps
    /\ schedule_fn \in [1 .. steps -> 0 .. SchedDen]
    /\ was_training = None
    /\ batch_size = None
    /\ filter_thres = None
    /\ start_temperature = None
    /\ all_mask_num_tokens = << >>
    /\ round = 0
    /\ temperature = None
    /\ net_input = None
    /\ seq = << >>
    /\ mask = << >>
    /\ net_logits = << >>
    /\ logits = << >>
    /\ sampled_ids = << >>
    /\ net_calls = 0
    /\ ret = None
    /\ x = << >>
    /\ rand_probs = << >>
    /\ masked = << >>
    /\ loss_terms = {}

\* ---- generate ------------------------------------------------------------
\* exists(val)
exists(val) == val # None

\* default(val, d)
default(val, d) == IF exists(val) THEN val[1] ELSE d

\* variant: the product rounded to the nearest integer instead of truncated
MaskNumTokensRounded(j) == Round(schedule_fn[j] * max_seq_len, SchedDen)

\* variant: the schedule read at times[:-1] instead of times[1:]
MaskNumTokensShifted(j) ==
    IF j = 1 THEN max_seq_len ELSE Long(schedule_fn[j - 1] * max_seq_len, SchedDen)

\* (schedule_fn(times[j]) * max_seq_len).long(), times = linspace(0, 1, steps + 1)
MaskNumTokens(j) == Long(schedule_fn[j] * max_seq_len, SchedDen)

\* torch.full(shape, v)
Full(b, v) == [e \in 1 .. b |-> [n \in Pos |-> v]]

\* generate up to the loop: save the mode, eval(), all-masked buffers, targets
GenerateBegin ==
    /\ pc = "idle"
    /\ \E bs \in {None} \cup { Some(b) : b \in 1 .. MaxBatch } :
       \E ft \in {None} \cup { Some(t) : t \in 0 .. ThresDen } :
       \E t0 \in 0 .. MaxStartTemp :
          /\ batch_size' = bs
          /\ filter_thres' = ft
          /\ start_temperature' = Some(t0)
          /\ seq' = Full(default(bs, 1), mask_id)
          /\ mask' = Full(default(bs, 1), TRUE)
    /\ was_training' = Some(training)
    /\ training' = FALSE
    /\ all_mask_num_tokens' = [j \in 1 .. steps |-> MaskNumTokens(j)]
    /\ round' = 0
    /\ pc' = "loop"
    /\ UNCHANGED << temperature, net_input, net_logits, logits, sampled_ids,
                    net_calls, ret >>
    /\ UNCHANGED cfgVars
    /\ UNCHANGED fwdVars

\* the index sets topk may return for every position, under threshold ft
FilterChoices(lg, ft) ==
    { ind \in [DOMAIN lg -> [Pos -> SUBSET Vocab]] :
        \A e \in DOMAIN lg : \A n \in Pos :
            ind[e][n] \in TopKSets(lg[e][n], TopKCount(ft[1])) }

\* logits after "if exists(filter_thres): logits = top_k(logits, filter_thres)"
Filtered(lg, ft, ind) ==
    IF ~exists(ft) THEN lg
    ELSE [e \in DOMAIN lg |-> [n \in Pos |-> top_k(lg[e][n], ind[e][n])]]

\* softmax of a position is defined when some weight is non-zero
\* (all -inf gives NaN, which torch.multinomial rejects)
Samplable(lg) == \A e \in DOMAIN lg : \A n \in Pos : WeightSum(lg[e][n]) > 0

\* the draws torch.multinomial can return for the whole batch
SampleChoices(lg) ==
    { ids \in [DOMAIN lg -> [Pos -> Vocab]] :
        \A e \in DOMAIN lg : \A n \in Pos : ids[e][n] \in Multinomial(lg[e][n]) }

\* variant: every position takes the fresh sample
CommitSampledAll(m, ids, s) == ids

\* variant: the branches of where exchanged
CommitSampledInverted(m, ids, s) ==
    [e \in DOMAIN s |-> [n \in Pos |-> IF m[e][n] THEN s[e][n] ELSE ids[e][n]]]

\* seq = torch.where(mask, sampled_ids, seq)
CommitSampled(m, ids, s) ==
    [e \in DOMAIN s |-> [n \in Pos |-> IF m[e][n] THEN ids[e][n] ELSE s[e][n]]]

\* scores = (1 - probs).gather(sampled_ids).masked_fill(~mask, -finfo.max)
Scores(lg, ids, m) ==
    [e \in DOMAIN lg |-> [n \in Pos |-> Score(lg[e][n], ids[e][n], m[e][n])]]

\* the index sets scores.topk(mask_num_tokens) may return, per example
MaskIndexChoices(scores, k) ==
    { mi \in [DOMAIN scores -> SUBSET Pos] :
        \A e \in DOMAIN scores : mi[e] \in ScoreTopKSets(scores[e], k) }

\* mask = zeros_like(scores).scatter(1, mask_indices, True)
Scatter(mi) == [e \in DOMAIN mi |-> [n \in Pos |-> n \in mi[e]]]

\* variant: the buffer left as it is
MaskedFillNone(s, m) == s

\* seq = seq.masked_fill(mask, mask_id)
MaskedFill(s, m) ==
    [e \in DOMAIN s |-> [n \in Pos |-> IF m[e][n] THEN mask_id ELSE s[e][n]]]

\* the value of the model after net(seq) returned lg and topk returned ind
RoundWith(lg, ind) ==
    LET flt == Filtered(lg, filter_thres, ind)
    IN  /\ Samplable(flt)
        /\ net_logits' = lg
        /\ logits' = flt
        /\ \E ids \in SampleChoices(flt) :
           \E mi \in MaskIndexChoices(Scores(flt, ids, mask),
                                      all_mask_num_tokens[round + 1]) :
              /\ sampled_ids' = ids
              /\ mask' = Scatter(mi)
              /\ seq' = MaskedFill(CommitSampled(mask, ids, seq), Scatter(mi))

\* variant: the loop over range(steps - 1)
LoopContinuesShort(i) == i < steps - 1

\* the zip of all_mask_num_tokens and reversed(range(steps)) has an item i
LoopContinues(i) == i < steps

\* variant: the countdown runs from steps down to 1
StepsUntilX0FromSteps(i) == steps - i

\* steps_until_x0 of the round of index i: reversed(range(steps))[i]
StepsUntilX0(i) == steps - 1 - i

\* max of two fractions
FracMax(a, b) == IF a.num * b.den >= b.num * a.den THEN a ELSE b

\* max(start_temperature * (steps_until_x0 / steps), 1e-3)
Temperature(t0, k) ==
    FracMax([num |-> t0 * k, den |-> steps], [num |-> 1, den |-> TempFloorDen])

\* one iteration of the loop of generate
GenerateRound ==
    /\ pc = "loop"
    /\ LoopContinues(round)
    /\ net_input' = seq
    /\ temperature' = Some(Temperature(start_temperature[1], StepsUntilX0(round)))
    /\ \E lg \in [DOMAIN seq -> [Pos -> [Vocab -> Logit]]] :
          IF ~exists(filter_thres)
          THEN RoundWith(lg, << >>)
          ELSE \E ind \in FilterChoices(lg, filter_thres) : RoundWith(lg, ind)
    /\ round' = round + 1
    /\ net_calls' = net_calls + 1
    /\ UNCHANGED << pc, training, was_training, batch_size, filter_thres,
                    start_temperature, all_mask_num_tokens, ret >>
    /\ UNCHANGED cfgVars
    /\ UNCHANGED fwdVars

\* an iteration in which self.net(seq) raises: the exception leaves generate
GenerateNetRaises ==
    /\ pc = "loop"
    /\ LoopContinues(round)
    /\ net_input' = seq
    /\ net_calls' = net_calls + 1
    /\ pc' = "raised"
    /\ UNCHANGED << training, mask >>
    /\ UNCHANGED genVars
    /\ UNCHANGED cfgVars
    /\ UNCHANGED fwdVars

\* an iteration in which top_k keeps no token (k = 0): softmax is NaN and
\* torch.multinomial raises
GenerateSampleRaises ==
    /\ pc = "loop"
    /\ LoopContinues(round)
    /\ exists(filter_thres)
    /\ TopKCount(filter_thres[1]) = 0
    /\ net_input' = seq
    /\ net_calls' = net_calls + 1
    /\ pc' = "raised"
    /\ UNCHANGED << training, mask >>
    /\ UNCHANGED genVars
    /\ UNCHANGED cfgVars
    /\ UNCHANGED fwdVars

\* variant: train() called with its default argument
RestoreModeDefault(was) == TRUE

\* self.net.train(was_training)
RestoreMode(was) == was[1]

\* the value generate returns
Returned(s, bs) == IF ~exists(bs) THEN s[1] ELSE s

\* after the loop: restore the mode, strip the batch dimension, return
GenerateEnd ==
    /\ pc = "loop"
    /\ ~LoopContinues(round)
    /\ training' = RestoreMode(was_training)
    /\ ret' = Returned(seq, batch_size)
    /\ pc' = "returned"
    /\ UNCHANGED << was_training, batch_size, filter_thres, start_temperature,
                    all_mask_num_tokens, round, temperature, net_input, seq, mask,
                    net_logits, logits, sampled_ids, net_calls >>
    /\ UNCHANGED cfgVars
    /\ UNCHANGED fwdVars

\* ---- forward -------------------------------------------------------------
\* the inputs of forward: batches of 1..MaxBatch token sequences whose length
\* is the configured one or off by one
Inputs ==
    UNION { [1 .. b -> [1 .. n -> Vocab]] :
              b \in 1 .. MaxBatch, n \in (max_seq_len - 1) .. (max_seq_len + 1) }

\* x.shape[1]
SeqLen(xx) == Len(xx[1])

\* variant: the assertion only bounds the length from above
LengthAtMost(n) == n <= max_seq_len

\* assert n == self.max_seq_len
LengthOk(n) == n = max_seq_len

\* the rows argsort of n random keys can give: the permutations of 0..n-1
Randperms(n) ==
    { p \in [1 .. n -> 0 .. (n - 1)] : \A i, j \in 1 .. n : p[i] = p[j] => i = j }

\* variant: the clamp left out
NumTokensMaskUnclamped(p, n) == p * n

\* num_tokens_mask = (rand_probs * n).clamp(min = 1.), as a numerator over SchedDen
NumTokensMask(p, n) == Max(p * n, SchedDen)

\* variant: ranks compared with <= instead of <
RankMaskInclusive(perm, p, n) ==
    [e \in DOMAIN perm |->
        [j \in 1 .. n |-> perm[e][j] * SchedDen <= Max(p[e] * n, SchedDen)]]

\* mask = batched_randperm < num_tokens_mask
RankMask(perm, p, n) ==
    [e \in DOMAIN perm |->
        [j \in 1 .. n |-> perm[e][j] * SchedDen < NumTokensMask(p[e], n)]]

\* variant: the branches of where exchanged
MaskInputInverted(m, xx) ==
    [e \in DOMAIN xx |-> [j \in DOMAIN xx[e] |-> IF m[e][j] THEN xx[e][j] ELSE mask_id]]

\* masked = torch.where(mask, mask_id, x)
MaskInput(m, xx) ==
    [e \in DOMAIN xx |-> [j \in DOMAIN xx[e] |-> IF m[e][j] THEN mask_id ELSE xx[e][j]]]

\* variant: the loss taken over every position
LossTermsAll(m, xx) ==
    { << q[1], q[2], xx[q[1]][q[2]] >> : q \in (DOMAIN xx) \X (DOMAIN xx[1]) }

\* the rows of logits[mask], x[mask] given to cross_entropy: example,
\* position and target token
LossTerms(m, xx) ==
    { << ej[1], ej[2], xx[ej[1]][ej[2]] >> :
        ej \in { q \in (DOMAIN xx) \X (DOMAIN xx[1]) : m[q[1]][q[2]] } }

\* forward up to the network call, for the input xx
ForwardMask(xx) ==
    /\ LengthOk(SeqLen(xx))
    /\ x' = xx
    /\ \E p \in [DOMAIN xx -> 0 .. SchedDen] :
       \E perm \in [DOMAIN xx -> Randperms(SeqLen(xx))] :
          /\ rand_probs' = p
          /\ mask' = RankMask(perm, p, SeqLen(xx))
          /\ masked' = MaskInput(RankMask(perm, p, SeqLen(xx)), xx)
    /\ net_calls' = net_calls + 1

\* forward on an input of another length: the assertion fails
ForwardAssertionError ==
    /\ pc = "idle"
    /\ \E xx \in Inputs :
          /\ ~LengthOk(SeqLen(xx))
          /\ x' = xx
    /\ pc' = "assertion_error"
    /\ UNCHANGED << training, mask, net_calls, net_input, rand_probs, masked,
                    loss_terms >>
    /\ UNCHANGED genVars
    /\ UNCHANGED cfgVars

\* forward: mask, query the net, cross-entropy over the masked positions
Forward ==
    /\ pc = "idle"
    /\ \E xx \in Inputs : ForwardMask(xx)
    /\ loss_terms' = LossTerms(mask', x')
    /\ pc' = "forward_returned"
    /\ UNCHANGED << training, net_input >>
    /\ UNCHANGED genVars
    /\ UNCHANGED cfgVars

\* forward in which self.net(masked) raises
ForwardNetRaises ==
    /\ pc = "idle"
    /\ \E xx \in Inputs : ForwardMask(xx)
    /\ pc' = "forward_raised"
    /\ UNCHANGED << training, net_input, loss_terms >>
    /\ UNCHANGED genVars
    /\ UNCHANGED cfgVars

\* ---- specification --------------------------------------------------------
Next ==
    \/ GenerateBegin
    \/ GenerateRound
    \/ GenerateNetRaises
    \/ GenerateSampleRaises
    \/ GenerateEnd
    \/ ForwardAssertionError
    \/ Forward
    \/ ForwardNetRaises

Spec == Init /\ [][Next]_vars

\* ---- properties ------------------------------------------------------------
\* number of masked positions of one example
CountMasked(row) == Cardinality({ n \in DOMAIN row : row[n] })

\* a step of the loop of generate that completes a round
RoundStep == pc = "loop" /\ round' = round + 1

\* C1: in generate under a schedule that is non-increasing with f(1) = 0, a
\* round never raises the number of masked positions of an example, and
\* after the final round no position is masked.
C1_MaskedCountNonIncreasing ==
    [][ (RoundStep /\ ScheduleContract) =>
            \A e \in DOMAIN mask :
                /\ CountMasked(mask'[e]) <= CountMasked(mask[e])
                /\ (round' = steps => CountMasked(mask'[e]) = 0) ]_vars

\* two rounds ran under the contract and passed through a count strictly
\* between max_seq_len and zero
C1_Witness ==
    /\ pc = "loop"
    /\ ScheduleContract
    /\ steps = 2
    /\ round = 2
    /\ all_mask_num_tokens[1] = 1
    /\ \A e \in DOMAIN mask : CountMasked(mask[e]) = 0

\* the token generate returned at position n of example e
RetAt(e, n) == IF exists(batch_size) THEN ret[e][n] ELSE ret[n]

RetRows == IF exists(batch_size) THEN { ret[e] : e \in DOMAIN ret } ELSE { ret }

\* C3: when generate returns (the schedule being 0 at t = 1 and mask_id lying
\* outside the vocabulary), every returned sequence has length max_seq_len,
\* holds vocabulary ids only, and nowhere mask_id.
C3_ReturnedFullyCommitted ==
    (pc = "returned" /\ schedule_fn[steps] = 0) =>
        /\ exists(batch_size) => DOMAIN ret = 1 .. batch_size[1]
        /\ \A r \in RetRows :
              /\ DOMAIN r = 1 .. max_seq_len
              /\ \A n \in DOMAIN r : r[n] \in Vocab /\ r[n] # mask_id

\* the scenario of the spec: two rounds, a single sequence returned unbatched
C3_Witness ==
    /\ pc = "returned"
    /\ schedule_fn[steps] = 0
    /\ steps = 2
    /\ ~exists(batch_size)
    /\ Len(ret) = max_seq_len

\* C4: if the model query fails partway through the loop of generate, the
\* training flag of the net is back at the value saved when generate was
\* called.
C4_ModeRestoredOnFailure ==
    pc = "raised" => training = was_training[1]

\* C5: generate saves the training flag and puts the net in evaluation mode
\* before the first query, the net is in evaluation mode throughout the loop
\* with the saved flag untouched, and on a normal return the flag is the
\* saved one, whichever it was.
C5_ModeSavedAndRestored ==
    [][ /\ (pc = "idle" /\ pc' = "loop") =>
              (was_training' = Some(training) /\ ~training' /\ net_calls' = 0)
        /\ pc = "loop" => (~training /\ was_training' = was_training)
        /\ pc' = "returned" => training' = was_training[1] ]_vars

\* generate returned after all its queries and put the net back in training mode
C5_Witness ==
    /\ pc = "returned"
    /\ training
    /\ net_calls = steps
    /\ steps = 2

\* forward got past its assertion and built a mask
ForwardMasked == pc \in {"forward_returned", "forward_raised"}

\* C6: in forward, every example has between 1 and max_seq_len masked
\* positions, for every schedule value p in [0, 1], also when
\* p * max_seq_len is below 1.
C6_AtLeastOneMasked ==
    ForwardMasked =>
        \A e \in DOMAIN mask :
            /\ CountMasked(mask[e]) >= 1
            /\ CountMasked(mask[e]) <= max_seq_len

\* an example whose p * max_seq_len is positive and below 1 got one masked position
C6_Witness ==
    /\ pc = "forward_returned"
    /\ \E e \in DOMAIN mask :
          /\ rand_probs[e] > 0
          /\ rand_probs[e] * max_seq_len < SchedDen
          /\ CountMasked(mask[e]) = 1

\* C7 as stated: in forward, the number of masked positions of every example
\* is max(1, round(p * max_seq_len)).
C7_MaskCountIsRounded ==
    ForwardMasked =>
        \A e \in DOMAIN mask :
            CountMasked(mask[e]) = Max(1, Round(rand_probs[e] * max_seq_len, SchedDen))

\* C7 amended: in forward, the number of masked positions of every example
\* is the ceiling of max(1, p * max_seq_len): the clamped product is not
\* rounded, and every rank below it is masked.
C7_MaskCountIsCeiling ==
    ForwardMasked =>
        \A e \in DOMAIN mask :
            CountMasked(mask[e]) =
                Ceil(Max(rand_probs[e] * max_seq_len, SchedDen), SchedDen)

\* an example whose p * max_seq_len is above 1 and not an integer
C7_Witness ==
    /\ pc = "forward_returned"
    /\ \E e \in DOMAIN mask :
          /\ rand_probs[e] * max_seq_len > SchedDen
          /\ (rand_probs[e] * max_seq_len) % SchedDen # 0
          /\ CountMasked(mask[e]) = 2

\* token t is one of the k highest entries of row: fewer than k entries exceed it
AmongTopK(row, t, k) == Cardinality({ u \in Vocab : row[u] > row[t] }) < k

\* C8: with a filter threshold, every token sampled in a round is one of the
\* k = ceil((1 - threshold) * V) highest-logit tokens of its position, and a
\* position changes only to mask_id or to the token sampled for it.
C8_SampledAmongTopK ==
    [][ (RoundStep /\ exists(filter_thres)) =>
            \A e \in DOMAIN seq : \A n \in Pos :
                /\ AmongTopK(net_logits'[e][n], sampled_ids'[e][n],
                             TopKCount(filter_thres[1]))
                /\ seq'[e][n] \in {seq[e][n], mask_id, sampled_ids'[e][n]} ]_vars

\* a filtered run with k below V returned, and some position had distinct logits
C8_Witness ==
    /\ pc = "returned"
    /\ exists(filter_thres)
    /\ TopKCount(filter_thres[1]) < num_tokens
    /\ \E e \in DOMAIN seq : \E n \in Pos : \E t, u \in Vocab :
          net_logits[e][n][t] # net_logits[e][n][u]

\* C9: a forward call on an input whose length is not max_seq_len ends in
\* the assertion error with no mask drawn, no masked input built and the
\* net never called.
C9_LengthMismatchAsserts ==
    (x # << >> /\ SeqLen(x) # max_seq_len) =>
        /\ pc = "assertion_error"
        /\ rand_probs = << >>
        /\ mask = << >>
        /\ masked = << >>
        /\ loss_terms = {}
        /\ net_calls = 0

\* forward was called with a sequence that is too short
C9_Witness ==
    /\ pc = "assertion_error"
    /\ SeqLen(x) = max_seq_len - 1
    /\ net_calls = 0

\* generate is in or past its loop with at least one round done
AfterRound == pc \in {"loop", "returned", "raised"} /\ round >= 1

\* C10 as stated: after round i (0-indexed) every example has
\* round(schedule_fn(times[i+1]) * max_seq_len) masked positions.
C10_MaskedCountIsRounded ==
    AfterRound =>
        \A e \in DOMAIN mask :
            CountMasked(mask[e]) = Round(schedule_fn[round] * max_seq_len, SchedDen)

\* C10 amended: after round i (0-indexed) every example has
\* schedule_fn(times[i+1]) * max_seq_len, truncated to an integer, masked
\* positions.
C10_MaskedCountIsTruncated ==
    AfterRound =>
        \A e \in DOMAIN mask :
            CountMasked(mask[e]) = Long(schedule_fn[round] * max_seq_len, SchedDen)

\* a round whose target product truncates and rounds differently left the
\* truncation masked
C10_Witness ==
    /\ AfterRound
    /\ Round(schedule_fn[round] * max_seq_len, SchedDen)
          # Long(schedule_fn[round] * max_seq_len, SchedDen)
    /\ \A e \in DOMAIN mask :
          CountMasked(mask[e]) = Long(schedule_fn[round] * max_seq_len, SchedDen)

\* 1 - P(sampled token) of a position is at least that of another, from the
\* filtered logits and the draws of the last round: with w the weight of
\* the sampled token and s the weight sum, 1 - wa/sa >= 1 - wb/sb
LessConfident(e, a, b) ==
    LET wa == Weight(logits[e][a][sampled_ids[e][a]])
        sa == WeightSum(logits[e][a])
        wb == Weight(logits[e][b][sampled_ids[e][b]])
        sb == WeightSum(logits[e][b])
    IN  wb * sa >= wa * sb

\* C11: in each round, among the positions masked at its start, every
\* position the round re-masks has a score 1 - P(sampled token) at least
\* that of every position the round commits.
C11_RemaskedLeastConfident ==
    [][ RoundStep =>
            \A e \in DOMAIN mask : \A a, b \in Pos :
                (mask[e][a] /\ mask[e][b] /\ mask'[e][a] /\ ~mask'[e][b]) =>
                    LessConfident(e, a, b)' ]_vars

\* the first round re-masked a position strictly less confident than the
\* one it committed
C11_Witness ==
    /\ pc = "loop"
    /\ round = 1
    /\ \E e \in DOMAIN mask : \E a, b \in Pos :
          /\ mask[e][a]
          /\ ~mask[e][b]
          /\ LessConfident(e, a, b)
          /\ ~LessConfident(e, b, a)

\* C12: from the start of generate on, after every round and in the
\* returned buffer, a position holds mask_id exactly when the mask is true
\* there, and holds a vocabulary id otherwise.
C12_MaskIdIffMasked ==
    pc \in {"loop", "returned", "raised"} =>
        \A e \in DOMAIN seq : \A n \in Pos :
            /\ (seq[e][n] = mask_id) <=> mask[e][n]
            /\ ~mask[e][n] => seq[e][n] \in Vocab

\* after the first round one position is masked and the other committed
C12_Witness ==
    /\ pc = "loop"
    /\ round = 1
    /\ \E e \in DOMAIN seq : \E a, b \in Pos :
          /\ mask[e][a] /\ seq[e][a] = mask_id
          /\ ~mask[e][b] /\ seq[e][b] \in Vocab

\* fraction a is at least fraction b, and equality of fractions
FracGE(a, b) == a.num * b.den >= b.num * a.den
FracEq(a, b) == a.num * b.den = b.num * a.den

\* C13: the round of index i (0-indexed) of a generate with S rounds samples
\* at temperature max(T0 * (S-1-i) / S, 1e-3); the temperature never rises
\* from a round to the next, the first round uses T0 * (S-1) / S and not T0,
\* and the final round uses the floor 1e-3.
C13_TemperatureCountdown ==
    [][ RoundStep =>
            LET i   == round
                T0  == start_temperature[1]
                raw == [num |-> T0 * (steps - 1 - i), den |-> steps]
                flr == [num |-> 1, den |-> 1000]
                t   == temperature'[1]
            IN  /\ FracEq(t, IF FracGE(raw, flr) THEN raw ELSE flr)
                /\ i >= 1 => FracGE(temperature[1], t)
                /\ (i = 0 /\ FracGE(raw, flr)) =>
                       (FracEq(t, raw) /\ ~FracEq(t, [num |-> T0, den |-> 1]))
                /\ i = steps - 1 => FracEq(t, flr) ]_vars

\* the first of two rounds at start temperature 1 sampled at 1/2, not at 1
C13_Witness ==
    /\ pc = "loop"
    /\ steps = 2
    /\ round = 1
    /\ start_temperature = Some(1)
    /\ FracEq(temperature[1], [num |-> 1, den |-> 2])

\* C14: in forward, the input given to the net differs from x exactly at
\* the masked positions, where it holds mask_id, and the (position, target)
\* pairs of the cross-entropy are exactly the masked positions, each with
\* its original token.
C14_MaskedInputAndLoss ==
    pc = "forward_returned" =>
        /\ DOMAIN masked = DOMAIN x
        /\ \A e \in DOMAIN x :
              /\ DOMAIN masked[e] = DOMAIN x[e]
              /\ \A j \in DOMAIN x[e] :
                    /\ (masked[e][j] # x[e][j]) <=> mask[e][j]
                    /\ mask[e][j] => masked[e][j] = mask_id
                    /\ mask[e][j] <=> (<< e, j, x[e][j] >> \in loss_terms)
        /\ \A term \in loss_terms :
              /\ term[1] \in DOMAIN x
              /\ term[2] \in DOMAIN x[term[1]]
              /\ term[3] = x[term[1]][term[2]]

\* a batch with a masked and an unmasked position: one loss term per masked
\* position, none for the other
C14_Witness ==
    /\ pc = "forward_returned"
    /\ \E e \in DOMAIN x : \E a, b \in DOMAIN x[e] :
          /\ mask[e][a] /\ ~mask[e][b]
          /\ masked[e][a] = mask_id /\ masked[e][b] = x[e][b]
          /\ << e, a, x[e][a] >> \in loss_terms
          /\ Cardinality(loss_terms) = 1

\* C15: a generate call with S rounds queries the net once per round, the
\* first query on the all-masked buffer and every later one on the buffer
\* the previous round left, and returns after exactly S queries.  It
\* terminates: every step of the loop completes a round (S - round
\* decreases) or leaves the loop, and with S rounds done the return is the
\* step that can be taken.
C15_ExactlyStepsQueries ==
    /\ [][ RoundStep =>
              /\ net_calls' = net_calls + 1
              /\ net_input' = seq
              /\ (round = 0 => net_input' = Full(default(batch_size, 1), mask_id)) ]_vars
    /\ [][ pc = "loop" =>
              \/ pc' = "loop" /\ round' = round + 1 /\ round' <= steps
              \/ pc' = "raised" /\ round < steps
              \/ pc' = "returned" /\ round = steps ]_vars
    /\ [](pc = "loop" => (net_calls = round /\ round <= steps))
    /\ []((pc = "loop" /\ round = steps) => ENABLED GenerateEnd)
    /\ [](pc = "returned" => (net_calls = steps /\ round = steps))

\* a call of two rounds returned after two queries, the second of them on a
\* buffer with a committed position
C15_Witness ==
    /\ pc = "returned"
    /\ steps = 2
    /\ net_calls = 2
    /\ \E e \in DOMAIN net_input : \E n \in Pos : net_input[e][n] \in Vocab

====
